---- MODULE Spec2Model ----
(***************************************************************************)
(* Model of autoextension (pyAutoExtension 1.1.1): the extension policies  *)
(* and their composition operators, the extension metaclasses (families)   *)
(* with their per-family registry, and the registration protocol           *)
(* BaseExtensionClass._new.                                                *)
(***************************************************************************)
EXTENDS Integers, Sequences, FiniteSets, TLC

(* ------------------------------ bounds --------------------------------- *)

\* Number of user-defined extension classes (families) besides ExtensionClass.
MaxFamilies == 1
\* Number of class declarations (calls of _new) in one behaviour.
MaxDecl == 3
\* The same two numbers for the behaviours of derived extension classes.
MaxDerived == 2
MaxDerivedDecl == 3
\* Number of threads that declare classes concurrently.
MaxThreads == 2

(* ------------------------------ policies ------------------------------- *)

NoError == "none"

\* A call that returned value v; log lists the policy invocations it made.
Ret(v, log) == [error |-> NoError, value |-> v, log |-> log]
\* A call that raised e.
Raise(e, log) == [error |-> e, value |-> FALSE, log |-> log]

\* One invocation of a policy object, at nesting depth d, with arguments a.
Invocation(policy, a, d) == <<[policy |-> policy, args |-> a, depth |-> d]>>

\* A user-defined policy (subclass redefining __call__) with a fixed result,
\* or one whose __call__ raises.
StubPolicy(result, raises) ==
  [kind |-> "Stub", result |-> result, raises |-> raises]

\* A user-defined policy that decides on the name given to the class in its
\* definition (the `name` argument), not on the name of the extension.
ClassNamePolicy(names) ==
  [kind |-> "ClassName", names |-> names]

NameBasedWhiteListExtensionPolicy(names) ==
  [kind |-> "WhiteList", whiteList |-> names]

NameBasedBlackListExtensionPolicy(names) ==
  [kind |-> "BlackList", blackList |-> names]

\* A default policy that ignores the classes whose name is "".
DefaultPolicyBlockingEmpty == NameBasedBlackListExtensionPolicy({""})

\* DefaultExtensionPolicy(): a black list built from no name.
DefaultExtensionPolicy == NameBasedBlackListExtensionPolicy({})

ComposedExtensionPolicy(operand1, operand2, binaryOperator) ==
  [kind |-> "Composed", operand1 |-> operand1, operand2 |-> operand2,
   binaryOperator |-> binaryOperator]

InvertedExtensionPolicy(originalPolicy) ==
  [kind |-> "Inverted", originalPolicy |-> originalPolicy]

\* The operators &, |, ^ and ~ of AbstractExtensionPolicy.
And(p, q) == ComposedExtensionPolicy(p, q, "and_")
Or(p, q) == ComposedExtensionPolicy(p, q, "or_")
Xor(p, q) == ComposedExtensionPolicy(p, q, "xor")
Not(p) == InvertedExtensionPolicy(p)

\* Python's bool is an int subtype: operator.and_/or_/xor work on the bits
\* and give back a bool.
BoolToInt(b) == IF b THEN 1 ELSE 0
IntToBool(i) == i # 0

and_first(a, b) == a
and_(a, b) == IntToBool(BoolToInt(a) * BoolToInt(b))

or_as_and(a, b) == IntToBool(BoolToInt(a) * BoolToInt(b))
or_(a, b) ==
  IntToBool(IF BoolToInt(a) >= BoolToInt(b) THEN BoolToInt(a) ELSE BoolToInt(b))

xor(a, b) == IntToBool((BoolToInt(a) + BoolToInt(b)) % 2)

ApplyBinaryOperator(op, a, b) ==
  CASE op = "and_" -> and_(a, b)
    [] op = "or_" -> or_(a, b)
    [] op = "xor" -> xor(a, b)

\* What mcls.extensionPolicy stands for when no class has the attribute.
MissingAttribute == [kind |-> "Missing"]

RECURSIVE Call(_, _, _)

\* __call__ of a user-defined policy.
StubCall(policy, a, d) ==
  IF policy.raises
  THEN Raise("StubError", Invocation(policy, a, d))
  ELSE Ret(policy.result, Invocation(policy, a, d))

\* __call__ of a user-defined policy that looks at the class name.
ClassNameCall(policy, a, d) ==
  Ret(a.name \in policy.names, Invocation(policy, a, d))

\* namespace["name"] in self.whiteList
WhiteListCall(policy, a, d) ==
  IF "name" \notin DOMAIN a.namespace
  THEN Raise("KeyError", Invocation(policy, a, d))
  ELSE Ret(a.namespace["name"] \in policy.whiteList, Invocation(policy, a, d))

\* A black list that is compared with the name given to the class.
BlackListCallByClassName(policy, a, d) ==
  IF "name" \notin DOMAIN a.namespace
  THEN Raise("KeyError", Invocation(policy, a, d))
  ELSE Ret(a.name \notin policy.blackList, Invocation(policy, a, d))

\* namespace["name"] not in self.blackList
BlackListCall(policy, a, d) ==
  IF "name" \notin DOMAIN a.namespace
  THEN Raise("KeyError", Invocation(policy, a, d))
  ELSE Ret(a.namespace["name"] \notin policy.blackList, Invocation(policy, a, d))

\* A composition that evaluates its second operand lazily.
ComposedCallShortCircuit(policy, a, d) ==
  LET r1 == Call(policy.operand1, a, d + 1)
      r2 == Call(policy.operand2, a, d + 1)
      me == Invocation(policy, a, d)
      decided == \/ policy.binaryOperator = "and_" /\ ~r1.value
                 \/ policy.binaryOperator = "or_" /\ r1.value
  IN  IF r1.error # NoError THEN Raise(r1.error, me \o r1.log)
      ELSE IF decided THEN Ret(r1.value, me \o r1.log)
      ELSE IF r2.error # NoError THEN Raise(r2.error, me \o r1.log \o r2.log)
      ELSE Ret(ApplyBinaryOperator(policy.binaryOperator, r1.value, r2.value),
               me \o r1.log \o r2.log)

\* self.binaryOperator(self.operand1(...), self.operand2(...)): both
\* arguments are evaluated, left to right, before the operator is applied.
ComposedCall(policy, a, d) ==
  LET r1 == Call(policy.operand1, a, d + 1)
      r2 == Call(policy.operand2, a, d + 1)
      me == Invocation(policy, a, d)
  IN  IF r1.error # NoError THEN Raise(r1.error, me \o r1.log)
      ELSE IF r2.error # NoError THEN Raise(r2.error, me \o r1.log \o r2.log)
      ELSE Ret(ApplyBinaryOperator(policy.binaryOperator, r1.value, r2.value),
               me \o r1.log \o r2.log)

\* An inversion that hands the operand's result through.
InvertedCallIdentity(policy, a, d) ==
  LET r == Call(policy.originalPolicy, a, d + 1)
      me == Invocation(policy, a, d)
  IN  IF r.error # NoError THEN Raise(r.error, me \o r.log)
      ELSE Ret(r.value, me \o r.log)

\* not self.originalPolicy(name, bases, namespace)
InvertedCall(policy, a, d) ==
  LET r == Call(policy.originalPolicy, a, d + 1)
      me == Invocation(policy, a, d)
  IN  IF r.error # NoError THEN Raise(r.error, me \o r.log)
      ELSE Ret(~r.value, me \o r.log)

\* policy(name, bases, namespace), dispatched on the class of the policy.
Call(policy, a, d) ==
  CASE policy.kind = "Stub" -> StubCall(policy, a, d)
    [] policy.kind = "ClassName" -> ClassNameCall(policy, a, d)
    [] policy.kind = "WhiteList" -> WhiteListCall(policy, a, d)
    [] policy.kind = "BlackList" -> BlackListCall(policy, a, d)
    [] policy.kind = "Composed" -> ComposedCall(policy, a, d)
    [] policy.kind = "Inverted" -> InvertedCall(policy, a, d)
    [] policy.kind = "Missing" -> Raise("AttributeError", <<>>)

(* --------------------------- state variables --------------------------- *)

VARIABLES
  families,             \* created extension classes: id -> [base, namespace,
                        \*   supplied: did its body hold an extensionPolicy]
  availableExtensions,  \* id -> reference of the dict held in __availableExtensions
  heap,                 \* dict reference -> dict (extension name -> extension)
  nDecl,                \* number of class declarations made so far (of
                        \*   classes constructed so far, where threads declare)
  history,              \* the declarations made, in order, with their outcome
  before,               \* heap as it was when the last declaration started
  queried,              \* the last result of getAvailableExtensions
  p, q,                 \* two operand policies
  evalArgs,             \* the arguments the policies are called with
  evalPolicy,           \* the policy called last
  evalOut,              \* what that call produced
  threads,              \* thread -> its place in _new and its local values
  lock                  \* the mutexes held: pairs <<extension class, thread>>

registryVars == <<families, availableExtensions, heap, nDecl, history, before, queried>>
policyVars == <<p, q, evalArgs, evalPolicy, evalOut>>
threadVars == <<threads, lock>>
vars == <<families, availableExtensions, heap, nDecl, history, before, queried,
          p, q, evalArgs, evalPolicy, evalOut, threads, lock>>

(* ------------------------------ families ------------------------------- *)

\* The id of ExtensionClass, the extension class the module itself defines.
ExtensionClass == 0

EmptyDict == [k \in {} |-> 0]

SetItem(d, k, v) == [j \in DOMAIN d \cup {k} |-> IF j = k THEN v ELSE d[j]]

\* Policies a definer puts in the body of an extension class.
FamilyPolicies ==
  { NameBasedBlackListExtensionPolicy({""}),
    NameBasedWhiteListExtensionPolicy({"X"}),
    Not(NameBasedWhiteListExtensionPolicy({"X"})),
    ClassNamePolicy({"T1"}),
    StubPolicy(TRUE, TRUE) }

\* Bodies of extension classes: with an extensionPolicy entry or without.
FamilyNamespaces ==
  {[k \in {} |-> DefaultExtensionPolicy]}
    \cup {[k \in {"extensionPolicy"} |-> pol] : pol \in FamilyPolicies}

\* A __new__ that leaves the body of the extension class as it is written.
MetaNewKeepsBody(namespace) == namespace

\* _MetaExtensionClass.__new__: a body without extensionPolicy gets the default.
MetaNew(namespace) ==
  IF "extensionPolicy" \notin DOMAIN namespace
  THEN [k \in {"extensionPolicy"} |-> DefaultExtensionPolicy]
  ELSE namespace

\* A registry dict that is the one bound to the base extension class.
MetaInitShared(mcls, base) == base

\* _MetaExtensionClass.__init__: self.__availableExtensions = {} binds a new
\* dict to the new extension class; the result is the reference of that dict.
MetaInit(mcls, base) == mcls

\* A lookup that takes the policy of the base extension class.
GetExtensionPolicyOfBase(mcls) ==
  families[families[mcls].base].namespace["extensionPolicy"]

RECURSIVE GetExtensionPolicy(_)
\* mcls.extensionPolicy: the entry of the class's own body, else the one of
\* its base, and so on; no class up to the root having one, the lookup fails.
GetExtensionPolicy(mcls) ==
  IF "extensionPolicy" \in DOMAIN families[mcls].namespace
  THEN families[mcls].namespace["extensionPolicy"]
  ELSE IF families[mcls].base = mcls
       THEN MissingAttribute
       ELSE GetExtensionPolicy(families[mcls].base)

\* mcls._availableExtensions
Registry(mcls) == heap[availableExtensions[mcls]]

(* -------------------------- registration protocol ---------------------- *)

None == [id |-> 0]

\* The arguments of the declarations made.
DeclArgs ==
  { [name |-> "T1", bases |-> <<"object">>, namespace |-> [k \in {} |-> ""]],
    [name |-> "T1", bases |-> <<"object">>, namespace |-> [k \in {"name"} |-> ""]],
    [name |-> "T1", bases |-> <<"object">>, namespace |-> [k \in {"name"} |-> "X"]],
    [name |-> "T2", bases |-> <<"object">>, namespace |-> [k \in {"name"} |-> "X"]],
    [name |-> "T2", bases |-> <<"bool">>, namespace |-> [k \in {"name"} |-> "X"]],
    [name |-> "T2", bases |-> <<"object">>, namespace |-> [k \in {"name"} |-> "Y"]] }

\* supermcls.__new__(mcls, name, bases, namespace): the new class, or a
\* TypeError when a base is a type that cannot be subclassed.
supermcls_new(mcls, a) ==
  IF \E i \in DOMAIN a.bases : a.bases[i] = "bool"
  THEN [error |-> "TypeError", value |-> None]
  ELSE [error |-> NoError,
        value |-> [id |-> nDecl + 1, mcls |-> mcls, name |-> a.name,
                   namespace |-> a.namespace]]

\* What one call of _new did: the error raised (or none), the value returned,
\* the registry dict it leaves, the policy invocations made, the policy's
\* answer when it gave one, and the extension an error message refers to.
Result(error, value, registry, log, admitted, existing) ==
  [error |-> error, value |-> value, registry |-> registry, log |-> log,
   admitted |-> admitted, existing |-> existing]

\* "name" in namespace
HasName(a) == "name" \in DOMAIN a.namespace

NameIsFreeAlways(reg, a) == TRUE
\* namespace["name"] not in mcls._availableExtensions
NameIsFree(reg, a) == a.namespace["name"] \notin DOMAIN reg

SetExtensionByClassName(reg, a, extension) == SetItem(reg, a.name, extension)
\* mcls._availableExtensions[namespace["name"]] = extension
SetExtension(reg, a, extension) == SetItem(reg, a.namespace["name"], extension)

\* The branch of a name that is taken, replacing the registered extension.
NameExistsReplace(mcls, a, pol) ==
  LET made == supermcls_new(mcls, a)
  IN  IF made.error # NoError
      THEN Result(made.error, None, Registry(mcls), pol.log, TRUE, None)
      ELSE Result(NoError, made.value, SetExtension(Registry(mcls), a, made.value),
                  pol.log, TRUE, None)

\* An error whose message does not tell where the name exists.
NameExistsUnnamed(mcls, a, pol) ==
  Result("ExtensionNameAlreadyExistsError", None, Registry(mcls), pol.log, TRUE,
         None)

\* raise ExtensionNameAlreadyExistsError, "... already exists at %s"
NameExists(mcls, a, pol) ==
  Result("ExtensionNameAlreadyExistsError", None, Registry(mcls), pol.log, TRUE,
         Registry(mcls)[a.namespace["name"]])

\* An accepted candidate that is returned without having been stored.
AcceptedNotStored(mcls, a, pol) ==
  LET made == supermcls_new(mcls, a)
  IN  IF made.error # NoError
      THEN Result(made.error, None, Registry(mcls), pol.log, TRUE, None)
      ELSE Result(NoError, made.value, Registry(mcls), pol.log, TRUE, None)

\* An accepted candidate whose name is put in the registry before its class
\* is constructed.
AcceptedNameReserved(mcls, a, pol) ==
  LET made == supermcls_new(mcls, a)
  IN  IF made.error # NoError
      THEN Result(made.error, None, SetExtension(Registry(mcls), a, None),
                  pol.log, TRUE, None)
      ELSE Result(NoError, made.value, SetExtension(Registry(mcls), a, made.value),
                  pol.log, TRUE, None)

\* The branch of an accepted candidate with a free name.
Accepted(mcls, a, pol) ==
  LET made == supermcls_new(mcls, a)
  IN  IF made.error # NoError
      THEN Result(made.error, None, Registry(mcls), pol.log, TRUE, None)
      ELSE Result(NoError, made.value, SetExtension(Registry(mcls), a, made.value),
                  pol.log, TRUE, None)

\* A rejected candidate that is put in the registry all the same.
RejectedButRegistered(mcls, a, pol) ==
  LET made == supermcls_new(mcls, a)
  IN  IF made.error # NoError
      THEN Result(made.error, None, Registry(mcls), pol.log, FALSE, None)
      ELSE Result(NoError, made.value, SetExtension(Registry(mcls), a, made.value),
                  pol.log, FALSE, None)

\* The else branch of the policy test: return supermcls.__new__(...)
Rejected(mcls, a, pol) ==
  LET made == supermcls_new(mcls, a)
  IN  IF made.error # NoError
      THEN Result(made.error, None, Registry(mcls), pol.log, FALSE, None)
      ELSE Result(NoError, made.value, Registry(mcls), pol.log, FALSE, None)

\* A missing name found only after the policy was asked.
NoNameAfterPolicy(mcls, a) ==
  Result("ExtensionNameError", None, Registry(mcls),
         Call(GetExtensionPolicy(mcls), a, 0).log, FALSE, None)

\* raise ExtensionNameError, "%s has no name."
NoName(mcls, a) ==
  Result("ExtensionNameError", None, Registry(mcls), <<>>, FALSE, None)

\* An error of the policy that is taken for a rejection.
PolicyRaisedAsRejected(mcls, a, pol) == Rejected(mcls, a, pol)

\* An exception raised inside mcls.extensionPolicy(...) leaves _new as it is.
PolicyRaised(mcls, a, pol) ==
  Result(pol.error, None, Registry(mcls), pol.log, FALSE, None)

\* A protocol that looks for the name in the registry before it asks the
\* policy.
_newCollisionFirst(mcls, a) ==
  IF HasName(a)
  THEN IF NameIsFree(Registry(mcls), a)
       THEN LET pol == Call(GetExtensionPolicy(mcls), a, 0)
            IN  IF pol.error # NoError
                THEN PolicyRaised(mcls, a, pol)
                ELSE IF pol.value
                     THEN Accepted(mcls, a, pol)
                     ELSE Rejected(mcls, a, pol)
       ELSE NameExists(mcls, a, Ret(TRUE, <<>>))
  ELSE NoName(mcls, a)

\* BaseExtensionClass._new(mcls, name, bases, namespace, supermcls)
_new(mcls, a) ==
  IF HasName(a)
  THEN LET pol == Call(GetExtensionPolicy(mcls), a, 0)
       IN  IF pol.error # NoError
           THEN PolicyRaised(mcls, a, pol)
           ELSE IF pol.value
                THEN IF NameIsFree(Registry(mcls), a)
                     THEN Accepted(mcls, a, pol)
                     ELSE NameExists(mcls, a, pol)
                ELSE Rejected(mcls, a, pol)
  ELSE NoName(mcls, a)

RECURSIVE DictValues(_)
\* d.values(): the values of the dict, each key once, in the dict's order.
DictValues(d) ==
  IF DOMAIN d = {} THEN <<>>
  ELSE LET k == CHOOSE j \in DOMAIN d : TRUE
       IN  <<d[k]>> \o DictValues([j \in DOMAIN d \ {k} |-> d[j]])

\* BaseExtensionClass.getAvailableExtensions: tuple(cls._availableExtensions.values())
getAvailableExtensions(cls) == DictValues(Registry(cls))

\* A result that shows the values the dict has when the result is read.
ResultView(cls) == [cls |-> cls, result |-> <<>>, view |-> TRUE]

\* tuple(...): the object a call of getAvailableExtensions returns, a new
\* tuple that holds the values the dict has at the call.
ResultTuple(cls) ==
  [cls |-> cls, result |-> getAvailableExtensions(cls), view |-> FALSE]

\* What a reader of a returned object finds in it.
Contents(r) == IF r.view THEN DictValues(Registry(r.cls)) ELSE r.result

\* A thread that has not called _new yet.
IdleThread ==
  [pc |-> "idle", mcls |-> ExtensionClass,
   args |-> [name |-> "T1", bases |-> <<"object">>, namespace |-> [k \in {} |-> ""]],
   pol |-> Ret(FALSE, <<>>), extension |-> None,
   out |-> Result(NoError, None, EmptyDict, <<>>, FALSE, None)]

(* ------------------------------- actions ------------------------------- *)

\* class <new>(<base>): <namespace>   -- a new extension class (family)
CreateFamilyUpTo(limit, base, namespace) ==
  /\ Cardinality(DOMAIN families) <= limit
  /\ LET mcls == Cardinality(DOMAIN families)
         ref == MetaInit(mcls, base)
     IN  /\ families' = (mcls :> [base |-> base, namespace |-> MetaNew(namespace),
                                   supplied |-> "extensionPolicy" \in DOMAIN namespace])
                          @@ families
         /\ availableExtensions' = (mcls :> ref) @@ availableExtensions
         /\ heap' = (ref :> EmptyDict) @@ heap
  /\ UNCHANGED <<nDecl, history, before, queried>>
  /\ UNCHANGED policyVars
  /\ UNCHANGED threadVars

CreateFamily(base, namespace) == CreateFamilyUpTo(MaxFamilies, base, namespace)

\* class <a.name>(<a.bases>): __metaclass__ = <mcls>; <a.namespace>
DeclareUpTo(limit, mcls, a) ==
  /\ nDecl < limit
  /\ LET out == _new(mcls, a)
     IN  /\ heap' = [heap EXCEPT ![availableExtensions[mcls]] = out.registry]
         /\ history' = Append(history, [mcls |-> mcls, args |-> a, out |-> out])
  /\ nDecl' = nDecl + 1
  /\ before' = heap
  /\ UNCHANGED <<families, availableExtensions, queried>>
  /\ UNCHANGED policyVars
  /\ UNCHANGED threadVars

Declare(mcls, a) == DeclareUpTo(MaxDecl, mcls, a)

\* <cls>.getAvailableExtensions()
Query(cls) ==
  /\ queried' = ResultTuple(cls)
  /\ UNCHANGED <<families, availableExtensions, heap, nDecl, history, before>>
  /\ UNCHANGED policyVars
  /\ UNCHANGED threadVars

Init ==
  /\ families = (ExtensionClass :>
                   [base |-> ExtensionClass,
                    namespace |-> MetaNew([k \in {} |-> DefaultExtensionPolicy]),
                    supplied |-> FALSE])
  /\ availableExtensions = (ExtensionClass :> MetaInit(ExtensionClass, ExtensionClass))
  /\ heap = (MetaInit(ExtensionClass, ExtensionClass) :> EmptyDict)
  /\ nDecl = 0
  /\ history = <<>>
  /\ before = heap
  /\ queried = [cls |-> ExtensionClass, result |-> <<>>, view |-> FALSE]
  /\ p = DefaultExtensionPolicy
  /\ q = DefaultExtensionPolicy
  /\ evalArgs = [name |-> "T1", bases |-> <<"object">>, namespace |-> [k \in {} |-> ""]]
  /\ evalPolicy = DefaultExtensionPolicy
  /\ evalOut = Ret(FALSE, <<>>)
  /\ threads = [t \in 1..MaxThreads |-> IdleThread]
  /\ lock = {}

Next ==
  \/ \E base \in DOMAIN families, namespace \in FamilyNamespaces :
       CreateFamily(base, namespace)
  \/ \E mcls \in DOMAIN families, a \in DeclArgs : Declare(mcls, a)
  \/ \E cls \in DOMAIN families : Query(cls)

Spec == Init /\ [][Next]_vars

(* --------------------- derived extension classes ----------------------- *)

\* Bodies of the extension classes: without a policy, or with a white list.
DerivedNamespaces ==
  { [k \in {} |-> DefaultExtensionPolicy],
    [k \in {"extensionPolicy"} |-> NameBasedWhiteListExtensionPolicy({"Y"})] }

\* The declarations made against them.
DerivedArgs ==
  { [name |-> "T1", bases |-> <<"object">>, namespace |-> [k \in {"name"} |-> "X"]],
    [name |-> "T2", bases |-> <<"object">>, namespace |-> [k \in {"name"} |-> "Y"]] }

\* class <new>(<base>): <namespace>
DerivedCreate(base, namespace) == CreateFamilyUpTo(MaxDerived, base, namespace)

\* class <a.name>(<a.bases>): __metaclass__ = <mcls>; <a.namespace>
DerivedDeclare(mcls, a) == DeclareUpTo(MaxDerivedDecl, mcls, a)

DerivedNext ==
  \/ \E base \in DOMAIN families, namespace \in DerivedNamespaces :
       DerivedCreate(base, namespace)
  \/ \E mcls \in DOMAIN families, a \in DerivedArgs : DerivedDeclare(mcls, a)

\* Extension classes derived from ExtensionClass and from one another, each
\* created before or after its base has registered extensions.
DerivedSpec == Init /\ [][DerivedNext]_vars

(* ------------------------ concurrent declarations ---------------------- *)

\* Bodies of the second extension class of the threads.
ThreadNamespaces ==
  { [k \in {} |-> DefaultExtensionPolicy],
    [k \in {"extensionPolicy"} |-> ClassNamePolicy({"T1"})] }

\* The declarations the threads make.
ThreadArgs ==
  { [name |-> "T1", bases |-> <<"object">>, namespace |-> [k \in {} |-> ""]],
    [name |-> "T1", bases |-> <<"object">>, namespace |-> [k \in {"name"} |-> "X"]],
    [name |-> "T2", bases |-> <<"object">>, namespace |-> [k \in {"name"} |-> "X"]],
    [name |-> "T2", bases |-> <<"bool">>, namespace |-> [k \in {"name"} |-> "X"]] }

\* The mutex of an extension class is held by no thread.
LockIsFree(mcls) == \A t \in DOMAIN threads : <<mcls, t>> \notin lock

\* The caller takes the mutex of the extension class and starts the class
\* statement: class <a.name>(<a.bases>): __metaclass__ = <mcls>; <a.namespace>
T_Acquire(t, mcls, a) ==
  /\ threads[t].pc = "idle"
  /\ LockIsFree(mcls)
  /\ lock' = lock \cup {<<mcls, t>>}
  /\ threads' = [threads EXCEPT ![t].pc = "enter", ![t].mcls = mcls, ![t].args = a]
  /\ UNCHANGED registryVars
  /\ UNCHANGED policyVars

\* _new up to the policy test: the name test, the call of the policy, and
\* the branches that read no registry.
T_Enter(t) ==
  /\ threads[t].pc = "enter"
  /\ LET mcls == threads[t].mcls
         a == threads[t].args
         pol == Call(GetExtensionPolicy(mcls), a, 0)
         out == IF ~HasName(a) THEN NoName(mcls, a)
                ELSE IF pol.error # NoError THEN PolicyRaised(mcls, a, pol)
                ELSE Rejected(mcls, a, pol)
     IN  IF HasName(a) /\ pol.error = NoError /\ pol.value
         THEN /\ threads' = [threads EXCEPT ![t].pc = "check", ![t].pol = pol]
              /\ nDecl' = nDecl
         ELSE /\ threads' = [threads EXCEPT ![t].pc = "release", ![t].out = out]
              /\ nDecl' = IF out.value # None THEN nDecl + 1 ELSE nDecl
  /\ UNCHANGED <<families, availableExtensions, heap, history, before, queried, lock>>
  /\ UNCHANGED policyVars

\* if namespace["name"] not in mcls._availableExtensions: ... else: raise
T_Check(t) ==
  /\ threads[t].pc = "check"
  /\ LET mcls == threads[t].mcls
         a == threads[t].args
     IN  IF NameIsFree(Registry(mcls), a)
         THEN threads' = [threads EXCEPT ![t].pc = "construct"]
         ELSE threads' = [threads EXCEPT ![t].pc = "release",
                                         ![t].out = NameExists(mcls, a, threads[t].pol)]
  /\ UNCHANGED <<lock>>
  /\ UNCHANGED registryVars
  /\ UNCHANGED policyVars

\* extension = supermcls.__new__(mcls, name, bases, namespace)
T_Construct(t) ==
  /\ threads[t].pc = "construct"
  /\ LET mcls == threads[t].mcls
         a == threads[t].args
         made == supermcls_new(mcls, a)
     IN  IF made.error # NoError
         THEN /\ threads' = [threads EXCEPT
                               ![t].pc = "release",
                               ![t].out = Result(made.error, None, Registry(mcls),
                                                 threads[t].pol.log, TRUE, None)]
              /\ nDecl' = nDecl
         ELSE /\ threads' = [threads EXCEPT ![t].pc = "insert",
                                              ![t].extension = made.value]
              /\ nDecl' = nDecl + 1
  /\ UNCHANGED <<families, availableExtensions, heap, history, before, queried, lock>>
  /\ UNCHANGED policyVars

\* mcls._availableExtensions[namespace["name"]] = extension; return extension
T_Insert(t) ==
  /\ threads[t].pc = "insert"
  /\ LET mcls == threads[t].mcls
         a == threads[t].args
         reg == SetExtension(Registry(mcls), a, threads[t].extension)
     IN  /\ heap' = [heap EXCEPT ![availableExtensions[mcls]] = reg]
         /\ threads' = [threads EXCEPT
                          ![t].pc = "release",
                          ![t].out = Result(NoError, threads[t].extension, reg,
                                            threads[t].pol.log, TRUE, None)]
  /\ UNCHANGED <<families, availableExtensions, nDecl, history, before, queried, lock>>
  /\ UNCHANGED policyVars

\* The class statement has ended; the caller gives the mutex back.
T_Release(t) ==
  /\ threads[t].pc = "release"
  /\ lock' = lock \ {<<threads[t].mcls, t>>}
  /\ threads' = [threads EXCEPT ![t].pc = "done"]
  /\ UNCHANGED registryVars
  /\ UNCHANGED policyVars

\* ExtensionClass and one extension class derived from it exist; no class has
\* been declared and no thread has started.
ThreadInit ==
  /\ \E namespace \in ThreadNamespaces :
       families = (1 :> [base |-> ExtensionClass, namespace |-> MetaNew(namespace),
                         supplied |-> "extensionPolicy" \in DOMAIN namespace])
                  @@ (ExtensionClass :>
                        [base |-> ExtensionClass,
                         namespace |-> MetaNew([k \in {} |-> DefaultExtensionPolicy]),
                         supplied |-> FALSE])
  /\ availableExtensions = (1 :> MetaInit(1, ExtensionClass))
                             @@ (ExtensionClass :> MetaInit(ExtensionClass, ExtensionClass))
  /\ heap = (MetaInit(1, ExtensionClass) :> EmptyDict)
              @@ (MetaInit(ExtensionClass, ExtensionClass) :> EmptyDict)
  /\ nDecl = 0
  /\ history = <<>>
  /\ before = heap
  /\ queried = [cls |-> ExtensionClass, result |-> <<>>, view |-> FALSE]
  /\ p = DefaultExtensionPolicy
  /\ q = DefaultExtensionPolicy
  /\ evalArgs = [name |-> "T1", bases |-> <<"object">>, namespace |-> [k \in {} |-> ""]]
  /\ evalPolicy = DefaultExtensionPolicy
  /\ evalOut = Ret(FALSE, <<>>)
  /\ threads = [t \in 1..MaxThreads |-> IdleThread]
  /\ lock = {}

ThreadNext ==
  \E t \in DOMAIN threads :
    \/ \E mcls \in DOMAIN families, a \in ThreadArgs : T_Acquire(t, mcls, a)
    \/ T_Enter(t)
    \/ T_Check(t)
    \/ T_Construct(t)
    \/ T_Insert(t)
    \/ T_Release(t)

\* Threads that each take the mutex of an extension class, declare one class
\* against it and give the mutex back.
ThreadSpec == ThreadInit /\ [][ThreadNext]_vars

(* ----------------------- evaluation of policies ------------------------ *)

\* Operand policies: fixed-result ones, a raising one, and name lists.
Operands ==
  { StubPolicy(TRUE, FALSE), StubPolicy(FALSE, FALSE), StubPolicy(FALSE, TRUE),
    NameBasedWhiteListExtensionPolicy({"X"}),
    NameBasedBlackListExtensionPolicy({""}) }

\* The policies built from two operands with &, |, ^ and ~.
Expressions(a, b) ==
  { a, b, Not(a), Not(b), Not(Not(a)),
    And(a, b), And(b, a), Or(a, b), Or(b, a), Xor(a, b), Xor(b, a),
    Not(And(a, b)), Or(Not(a), Not(b)) }

\* policy(name, bases, namespace)
Evaluate(policy) ==
  /\ evalPolicy' = policy
  /\ evalOut' = Call(policy, evalArgs, 0)
  /\ UNCHANGED <<p, q, evalArgs>>
  /\ UNCHANGED registryVars
  /\ UNCHANGED threadVars

PolicyInit ==
  /\ families = (ExtensionClass :>
                   [base |-> ExtensionClass,
                    namespace |-> MetaNew([k \in {} |-> DefaultExtensionPolicy]),
                    supplied |-> FALSE])
  /\ availableExtensions = (ExtensionClass :> MetaInit(ExtensionClass, ExtensionClass))
  /\ heap = (MetaInit(ExtensionClass, ExtensionClass) :> EmptyDict)
  /\ nDecl = 0
  /\ history = <<>>
  /\ before = heap
  /\ queried = [cls |-> ExtensionClass, result |-> <<>>, view |-> FALSE]
  /\ p \in Operands
  /\ q \in Operands
  /\ evalArgs \in DeclArgs
  /\ evalPolicy = [kind |-> "None"]
  /\ evalOut = Ret(FALSE, <<>>)
  /\ threads = [t \in 1..MaxThreads |-> IdleThread]
  /\ lock = {}

\* The sets of names the name lists are built from.
NameLists == SUBSET {"", "X", "Y"}

\* The white list and the black list built from the same names, and the
\* inverted white list.
ListPolicies(names) ==
  { NameBasedWhiteListExtensionPolicy(names),
    NameBasedBlackListExtensionPolicy(names),
    Not(NameBasedWhiteListExtensionPolicy(names)) }

PolicyNext ==
  \/ \E policy \in Expressions(p, q) : Evaluate(policy)
  \/ \E names \in NameLists : \E policy \in ListPolicies(names) : Evaluate(policy)

PolicySpec == PolicyInit /\ [][PolicyNext]_vars

(* ------------------- properties of the registration -------------------- *)

HasDeclared == Len(history) > 0
\* The last declaration made.
Last == history[Len(history)]
\* The registry of a family as it was when the last declaration started.
RegistryBefore(mcls) == before[availableExtensions[mcls]]
\* The answer of a family's policy for a candidate.
PolicyAnswer(mcls, a) == Call(GetExtensionPolicy(mcls), a, 0)
PolicyAccepts(mcls, a) ==
  PolicyAnswer(mcls, a).error = NoError /\ PolicyAnswer(mcls, a).value
PolicyRejects(mcls, a) ==
  PolicyAnswer(mcls, a).error = NoError /\ ~PolicyAnswer(mcls, a).value
\* The type construction of the candidate returns.
Constructs(mcls, a) == supermcls_new(mcls, a).error = NoError
\* The i-th declaration ended in the Registered outcome: the protocol returned
\* the candidate on the branch of an accepted candidate.
IsRegistered(i) == history[i].out.error = NoError /\ history[i].out.admitted
\* The i-th declaration ended in the ConstructedUnregistered outcome.
IsConstructedUnregistered(i) ==
  history[i].out.error = NoError /\ ~history[i].out.admitted
ExtName(a) == a.namespace["name"]
\* No registry differs from what it was when the last declaration started.
AllRegistriesUnchanged ==
  \A ref \in DOMAIN heap :
    IF ref \in DOMAIN before THEN heap[ref] = before[ref] ELSE heap[ref] = EmptyDict
\* The extensions a tuple lists.
Listed(t) == {t[i] : i \in DOMAIN t}

\* C1 (as stated): a declaration whose name is already a key of the family's
\* registry always fails with ExtensionNameAlreadyExistsError, produces no
\* class and leaves the registry as it was.
C1_DuplicateAlwaysFails ==
  (HasDeclared /\ HasName(Last.args)
     /\ ExtName(Last.args) \in DOMAIN RegistryBefore(Last.mcls))
  => /\ Last.out.error = "ExtensionNameAlreadyExistsError"
     /\ Last.out.value = None
     /\ Registry(Last.mcls) = RegistryBefore(Last.mcls)

\* C1 (amended): a declaration whose name is already a key of the family's
\* registry and that the family's policy accepts always fails with
\* ExtensionNameAlreadyExistsError, produces no class and leaves the registry
\* as it was: same keys, and the colliding key maps to the original extension.
C1_AcceptedDuplicateFails ==
  (HasDeclared /\ HasName(Last.args)
     /\ ExtName(Last.args) \in DOMAIN RegistryBefore(Last.mcls)
     /\ PolicyAccepts(Last.mcls, Last.args))
  => /\ Last.out.error = "ExtensionNameAlreadyExistsError"
     /\ Last.out.value = None
     /\ Registry(Last.mcls) = RegistryBefore(Last.mcls)
     /\ DOMAIN Registry(Last.mcls) = DOMAIN RegistryBefore(Last.mcls)
     /\ Registry(Last.mcls)[ExtName(Last.args)]
          = RegistryBefore(Last.mcls)[ExtName(Last.args)]
     /\ Registry(Last.mcls)[ExtName(Last.args)].id < Len(history)

\* A second declaration of a registered name, accepted by the policy, failed.
C1_Witness ==
  /\ HasDeclared /\ HasName(Last.args)
  /\ ExtName(Last.args) \in DOMAIN RegistryBefore(Last.mcls)
  /\ PolicyAccepts(Last.mcls, Last.args)
  /\ Last.out.error = "ExtensionNameAlreadyExistsError"

\* C2: a declaration that carries a name and that the family's policy rejects
\* raises no extension error and changes no registry; its type construction
\* returning, it returns the new class; and a class returned that way is
\* listed by getAvailableExtensions of no family, then and after any later
\* declarations.
C2_RejectedIsConstructedNotListed ==
  /\ (HasDeclared /\ HasName(Last.args) /\ PolicyRejects(Last.mcls, Last.args))
     => /\ AllRegistriesUnchanged
        /\ Last.out.error \notin {"ExtensionNameError", "ExtensionNameAlreadyExistsError"}
        /\ Constructs(Last.mcls, Last.args)
             => /\ Last.out.error = NoError
                /\ Last.out.value # None
                /\ Last.out.value.id = Len(history)
                /\ Last.out.value.namespace = Last.args.namespace
  /\ \A i \in DOMAIN history :
       (HasName(history[i].args) /\ PolicyRejects(history[i].mcls, history[i].args))
       => \A f \in DOMAIN families :
            history[i].out.value \notin Listed(getAvailableExtensions(f))

\* A rejected candidate was constructed, and another one was registered in
\* the same family after it.
C2_Witness ==
  \E i \in DOMAIN history :
    /\ HasName(history[i].args)
    /\ PolicyRejects(history[i].mcls, history[i].args)
    /\ history[i].out.error = NoError
    /\ history[i].out.value # None
    /\ \E j \in DOMAIN history :
         j > i /\ history[j].mcls = history[i].mcls /\ IsRegistered(j)

\* C3: a declaration without a name entry fails with ExtensionNameError, the
\* policy having been invoked zero times; no class is produced and no
\* registry changes.
C3_MissingNameFailsBeforePolicy ==
  (HasDeclared /\ ~HasName(Last.args))
  => /\ Last.out.error = "ExtensionNameError"
     /\ Len(Last.out.log) = 0
     /\ Last.out.value = None
     /\ AllRegistriesUnchanged

\* A declaration without a name failed in a family that holds an extension.
C3_Witness ==
  /\ HasDeclared /\ ~HasName(Last.args)
  /\ Last.out.error = "ExtensionNameError"
  /\ Registry(Last.mcls) # EmptyDict

\* C4: every family, derived ones included, owns a registry of its own that
\* starts empty; a declaration against a family, whatever its outcome, leaves
\* the registry of every other family as it was; a duplicate-name error only
\* ever comes from a name registered in the same family, and a name
\* registered in one family is registered in another one all the same.
C4_FamiliesDoNotInterfere ==
  /\ \A f, g \in DOMAIN families :
       f # g => availableExtensions[f] # availableExtensions[g]
  /\ \A f \in DOMAIN families :
       (\A i \in DOMAIN history : ~(history[i].mcls = f /\ IsRegistered(i)))
       => Registry(f) = EmptyDict
  /\ HasDeclared =>
       \A g \in DOMAIN families \ {Last.mcls} :
         IF availableExtensions[g] \in DOMAIN before
         THEN Registry(g) = RegistryBefore(g)
         ELSE Registry(g) = EmptyDict
  /\ \A j \in DOMAIN history :
       history[j].out.error = "ExtensionNameAlreadyExistsError"
       => \E i \in 1..(j - 1) :
            /\ history[i].mcls = history[j].mcls
            /\ IsRegistered(i)
            /\ ExtName(history[i].args) = ExtName(history[j].args)
  /\ \A i, j \in DOMAIN history :
       ( /\ i < j /\ history[i].mcls # history[j].mcls
         /\ IsRegistered(i) /\ HasName(history[j].args)
         /\ ExtName(history[i].args) = ExtName(history[j].args)
         /\ PolicyAccepts(history[j].mcls, history[j].args)
         /\ Constructs(history[j].mcls, history[j].args)
         /\ \A k \in 1..(j - 1) :
              ~( /\ history[k].mcls = history[j].mcls /\ IsRegistered(k)
                 /\ ExtName(history[k].args) = ExtName(history[j].args)) )
       => /\ IsRegistered(j)
          /\ Registry(history[j].mcls)[ExtName(history[j].args)] = history[j].out.value
          /\ Registry(history[i].mcls)[ExtName(history[i].args)] = history[i].out.value

\* "X" was registered in a derived family and then in the family it derives
\* from, and a later declaration failed in one of them.
C4_Witness ==
  \E f, g \in DOMAIN families :
    /\ f # g /\ families[g].base = f
    /\ "X" \in DOMAIN Registry(f) /\ "X" \in DOMAIN Registry(g)
    /\ Registry(g)["X"].id < Registry(f)["X"].id
    /\ HasDeclared /\ Last.out.error # NoError

\* C5: the extensions getAvailableExtensions returns for one family carry
\* pairwise distinct names, in the result of every call made and in the
\* result a call would give in any reachable state.
C5_ListedNamesDistinct ==
  /\ \A i, j \in DOMAIN queried.result :
       i # j => ExtName(queried.result[i]) # ExtName(queried.result[j])
  /\ \A f \in DOMAIN families :
       \A i, j \in DOMAIN getAvailableExtensions(f) :
         i # j => ExtName(getAvailableExtensions(f)[i])
                    # ExtName(getAvailableExtensions(f)[j])

\* A call returned two extensions after a declaration of a taken name.
C5_Witness ==
  /\ Len(queried.result) >= 2
  /\ \E i \in DOMAIN history :
       history[i].out.error = "ExtensionNameAlreadyExistsError"

\* C6: for every family, getAvailableExtensions lists each class whose
\* declaration against the family ended in Registered, lists each once, and
\* lists nothing else.
C6_ListedAreExactlyRegistered ==
  \A f \in DOMAIN families :
    /\ Listed(getAvailableExtensions(f))
         = {history[i].out.value :
              i \in {j \in DOMAIN history : history[j].mcls = f /\ IsRegistered(j)}}
    /\ Len(getAvailableExtensions(f))
         = Cardinality({j \in DOMAIN history : history[j].mcls = f /\ IsRegistered(j)})
    /\ (queried.cls = f /\ Len(queried.result) > 0)
         => Listed(queried.result) \subseteq Listed(getAvailableExtensions(f))

\* One family has seen a rejected candidate constructed, a registration and a
\* failed declaration of the registered name.
C6_Witness ==
  \E f \in DOMAIN families :
    /\ Len(getAvailableExtensions(f)) = 1
    /\ \E i, j, k \in DOMAIN history :
         /\ history[i].mcls = f /\ IsConstructedUnregistered(i)
         /\ history[j].mcls = f /\ IsRegistered(j)
         /\ history[k].mcls = f
         /\ history[k].out.error = "ExtensionNameAlreadyExistsError"

\* C7: a family whose body supplies no policy is bound to a black list with
\* no entry, which answers true for every candidate that has a name, the
\* empty string included; so in such a family every declaration with a name
\* that is not registered yet, its type construction returning, ends in
\* Registered.
C7_DefaultPolicyAcceptsAll ==
  \A f \in DOMAIN families :
    ~families[f].supplied
    => /\ GetExtensionPolicy(f) = [kind |-> "BlackList", blackList |-> {}]
       /\ \A a \in DeclArgs : HasName(a) => PolicyAccepts(f, a)
       /\ ( /\ HasDeclared /\ Last.mcls = f /\ HasName(Last.args)
            /\ ExtName(Last.args) \notin DOMAIN RegistryBefore(f)
            /\ Constructs(f, Last.args) )
          => /\ IsRegistered(Len(history))
             /\ ExtName(Last.args) \in DOMAIN Registry(f)
             /\ Registry(f)[ExtName(Last.args)] = Last.out.value

\* A derived family without a policy of its own registered the name "".
C7_Witness ==
  /\ HasDeclared
  /\ Last.mcls # ExtensionClass
  /\ ~families[Last.mcls].supplied
  /\ HasName(Last.args)
  /\ ExtName(Last.args) = ""
  /\ IsRegistered(Len(history))

(* ---------------------- properties of the policies --------------------- *)

\* A policy has been called.
HasEvaluated == evalPolicy # [kind |-> "None"]
\* The operand returns a boolean for the arguments of the state.
Returns(operand) == Call(operand, evalArgs, 0).error = NoError
ValueOf(policy) == Call(policy, evalArgs, 0).value
ErrorOf(policy) == Call(policy, evalArgs, 0).error
\* The invocations a call made itself, in order.
DirectCalls(log) == SelectSeq(log, LAMBDA e : e.depth = 1)
\* Policies whose result is fixed.
IsFixedResult(operand) == operand.kind = "Stub" /\ ~operand.raises

C9_DeMorgan ==
  /\ evalPolicy = Not(And(p, q))
       => /\ evalOut.value = ValueOf(Or(Not(p), Not(q)))
          /\ evalOut.error = ErrorOf(Or(Not(p), Not(q)))
          /\ (IsFixedResult(p) /\ IsFixedResult(q))
               => /\ evalOut.error = NoError
                  /\ evalOut.value = (~p.result \/ ~q.result)
  /\ evalPolicy = Or(Not(p), Not(q))
       => /\ evalOut.value = ValueOf(Not(And(p, q)))
          /\ evalOut.error = ErrorOf(Not(And(p, q)))

\* ~(p & q) was called with p true and q false and answered true.
C9_Witness ==
  /\ evalPolicy = Not(And(p, q))
  /\ IsFixedResult(p) /\ IsFixedResult(q) /\ p.result /\ ~q.result
  /\ evalOut.error = NoError /\ evalOut.value

\* C10: for operands that return a boolean, p & q equals q & p, p | q equals
\* q | p, ~p is the negation of p's result and ~~p is p's result.
C10_CommutativityAndDoubleNegation ==
  (HasEvaluated /\ Returns(p) /\ Returns(q))
  => /\ evalPolicy \in Expressions(p, q) => evalOut.error = NoError
     /\ evalPolicy = And(p, q) => evalOut.value = ValueOf(And(q, p))
     /\ evalPolicy = And(q, p) => evalOut.value = ValueOf(And(p, q))
     /\ evalPolicy = Or(p, q) => evalOut.value = ValueOf(Or(q, p))
     /\ evalPolicy = Or(q, p) => evalOut.value = ValueOf(Or(p, q))
     /\ evalPolicy = Not(p) => evalOut.value = ~ValueOf(p)
     /\ evalPolicy = Not(q) => evalOut.value = ~ValueOf(q)
     /\ evalPolicy = Not(Not(p)) => evalOut.value = ValueOf(p)
     /\ (evalPolicy = And(p, q) /\ IsFixedResult(p) /\ IsFixedResult(q))
          => evalOut.value = (p.result /\ q.result)
     /\ (evalPolicy = Or(p, q) /\ IsFixedResult(p) /\ IsFixedResult(q))
          => evalOut.value = (p.result \/ q.result)

\* q & p was called with p true and q false.
C10_Witness ==
  /\ evalPolicy = And(q, p)
  /\ IsFixedResult(p) /\ IsFixedResult(q) /\ p.result /\ ~q.result
  /\ evalOut.error = NoError /\ ~evalOut.value

\* C11: the white list built from a set answers true iff namespace["name"]
\* is in the set and the black list iff it is not in the set; both answers
\* are the same for all candidates with the same namespace, whatever the
\* class name and bases; and the black list gives the outcome of the inverted
\* white list of the same set on every candidate.
C11_NameLists ==
  /\ (HasEvaluated /\ evalPolicy.kind = "WhiteList")
       => /\ HasName(evalArgs)
               => /\ evalOut.error = NoError
                  /\ evalOut.value = (ExtName(evalArgs) \in evalPolicy.whiteList)
          /\ \A b \in DeclArgs :
               b.namespace = evalArgs.namespace
               => /\ Call(evalPolicy, b, 0).value = evalOut.value
                  /\ Call(evalPolicy, b, 0).error = evalOut.error
  /\ (HasEvaluated /\ evalPolicy.kind = "BlackList")
       => /\ HasName(evalArgs)
               => /\ evalOut.error = NoError
                  /\ evalOut.value = (ExtName(evalArgs) \notin evalPolicy.blackList)
          /\ \A b \in DeclArgs :
               b.namespace = evalArgs.namespace
               => /\ Call(evalPolicy, b, 0).value = evalOut.value
                  /\ Call(evalPolicy, b, 0).error = evalOut.error
          /\ evalOut.value
               = ValueOf(Not(NameBasedWhiteListExtensionPolicy(evalPolicy.blackList)))
          /\ evalOut.error
               = ErrorOf(Not(NameBasedWhiteListExtensionPolicy(evalPolicy.blackList)))

\* A black list that holds the candidate's name and another name was called
\* and answered false.
C11_Witness ==
  /\ HasEvaluated /\ evalPolicy.kind = "BlackList" /\ HasName(evalArgs)
  /\ ExtName(evalArgs) \in evalPolicy.blackList
  /\ Cardinality(evalPolicy.blackList) = 2
  /\ evalOut.error = NoError /\ ~evalOut.value

\* C12: the duplicate-name error refers to the extension that is registered
\* under the name in the same family at that moment, and that extension is
\* the class of the first declaration registered under the name there.
C12_DuplicateErrorNamesExisting ==
  (HasDeclared /\ Last.out.error = "ExtensionNameAlreadyExistsError")
  => /\ Last.out.existing # None
     /\ Last.out.existing = RegistryBefore(Last.mcls)[ExtName(Last.args)]
     /\ Last.out.existing = Registry(Last.mcls)[ExtName(Last.args)]
     /\ Last.out.existing.mcls = Last.mcls
     /\ ExtName(Last.out.existing) = ExtName(Last.args)
     /\ \E i \in 1..(Len(history) - 1) :
          /\ history[i].mcls = Last.mcls
          /\ IsRegistered(i)
          /\ ExtName(history[i].args) = ExtName(Last.args)
          /\ history[i].out.value = Last.out.existing
          /\ \A k \in 1..(i - 1) :
               ~( /\ history[k].mcls = Last.mcls
                  /\ HasName(history[k].args)
                  /\ ExtName(history[k].args) = ExtName(Last.args)
                  /\ IsRegistered(k) )

\* In a family that ignores the name "", "" was constructed unregistered, "X"
\* was registered, and a second "X" failed with an error naming the first.
C12_Witness ==
  /\ Len(history) = 3
  /\ GetExtensionPolicy(Last.mcls) = NameBasedBlackListExtensionPolicy({""})
  /\ history[1].mcls = Last.mcls /\ history[2].mcls = Last.mcls
  /\ IsConstructedUnregistered(1) /\ ExtName(history[1].args) = ""
  /\ IsRegistered(2) /\ ExtName(history[2].args) = "X"
  /\ Last.out.error = "ExtensionNameAlreadyExistsError"
  /\ Last.out.existing = history[2].out.value

\* The calls of the family's policy that a declaration made itself.
PolicyCalls(i) == SelectSeq(history[i].out.log, LAMBDA e : e.depth = 0)

\* C13: the policy is asked before the registry is searched for the name, and
\* the search is made only when the policy answered true: a candidate whose
\* name is a key of the family's registry and that the policy rejects gets no
\* duplicate-name error and changes no registry, and, its type construction
\* returning, is constructed and returned; a duplicate-name error is raised
\* only after the policy accepted the candidate.
C13_PolicyBeforeCollision ==
  /\ ( /\ HasDeclared /\ HasName(Last.args)
       /\ ExtName(Last.args) \in DOMAIN RegistryBefore(Last.mcls)
       /\ PolicyRejects(Last.mcls, Last.args) )
     => /\ Last.out.error # "ExtensionNameAlreadyExistsError"
        /\ Len(PolicyCalls(Len(history))) = 1
        /\ AllRegistriesUnchanged
        /\ Constructs(Last.mcls, Last.args)
             => /\ Last.out.error = NoError
                /\ Last.out.value # None
                /\ Last.out.value.id = Len(history)
                /\ Last.out.value # Registry(Last.mcls)[ExtName(Last.args)]
  /\ (HasDeclared /\ Last.out.error = "ExtensionNameAlreadyExistsError")
     => /\ PolicyAccepts(Last.mcls, Last.args)
        /\ Len(PolicyCalls(Len(history))) = 1

\* A class named T2 with the registered extension name "X" was rejected by a
\* policy that looks at the class name, and was returned.
C13_Witness ==
  /\ HasDeclared /\ HasName(Last.args)
  /\ ExtName(Last.args) \in DOMAIN RegistryBefore(Last.mcls)
  /\ PolicyRejects(Last.mcls, Last.args)
  /\ Last.out.error = NoError /\ Last.out.value # None

\* The terminal outcomes of the i-th declaration.
OutcomesOf(i) ==
  {o \in {"Registered", "ConstructedUnregistered", "MissingName", "DuplicateName"} :
     \/ o = "Registered" /\ IsRegistered(i)
     \/ o = "ConstructedUnregistered" /\ IsConstructedUnregistered(i)
     \/ o = "MissingName" /\ history[i].out.error = "ExtensionNameError"
     \/ o = "DuplicateName" /\ history[i].out.error = "ExtensionNameAlreadyExistsError"}

\* The policy returns for the last declaration, and so does the type
\* construction where the protocol gets to it.
LastCallsReturn ==
  /\ HasName(Last.args) => PolicyAnswer(Last.mcls, Last.args).error = NoError
  /\ \/ ~HasName(Last.args)
     \/ Constructs(Last.mcls, Last.args)
     \/ /\ PolicyAccepts(Last.mcls, Last.args)
        /\ ExtName(Last.args) \in DOMAIN RegistryBefore(Last.mcls)

\* C14: a declaration whose policy and type construction return ends in
\* exactly one of Registered, ConstructedUnregistered, MissingName and
\* DuplicateName, the one its name, the policy's answer and the registry
\* select; a declaration asks the policy at most once and constructs at most
\* one class; it changes a registry only on Registered, by one insertion of
\* name -> class into the registry of its family, and changes none otherwise.
C14_OneTerminalOutcome ==
  HasDeclared =>
    /\ LastCallsReturn
         => /\ Cardinality(OutcomesOf(Len(history))) = 1
            /\ ~HasName(Last.args) => OutcomesOf(Len(history)) = {"MissingName"}
            /\ (HasName(Last.args) /\ PolicyRejects(Last.mcls, Last.args))
                 => OutcomesOf(Len(history)) = {"ConstructedUnregistered"}
            /\ ( /\ HasName(Last.args) /\ PolicyAccepts(Last.mcls, Last.args)
                 /\ ExtName(Last.args) \in DOMAIN RegistryBefore(Last.mcls) )
                 => OutcomesOf(Len(history)) = {"DuplicateName"}
            /\ ( /\ HasName(Last.args) /\ PolicyAccepts(Last.mcls, Last.args)
                 /\ ExtName(Last.args) \notin DOMAIN RegistryBefore(Last.mcls) )
                 => OutcomesOf(Len(history)) = {"Registered"}
    /\ Len(PolicyCalls(Len(history))) <= 1
    /\ Last.out.value # None => Last.out.value.id = Len(history)
    /\ nDecl = Len(history)
    /\ IF IsRegistered(Len(history))
       THEN /\ ExtName(Last.args) \notin DOMAIN RegistryBefore(Last.mcls)
            /\ Registry(Last.mcls)
                 = SetItem(RegistryBefore(Last.mcls), ExtName(Last.args), Last.out.value)
            /\ \A ref \in DOMAIN before \ {availableExtensions[Last.mcls]} :
                 heap[ref] = before[ref]
       ELSE AllRegistriesUnchanged

\* A declaration was registered in a family whose registry held another name.
C14_Witness ==
  /\ HasDeclared /\ IsRegistered(Len(history))
  /\ RegistryBefore(Last.mcls) # EmptyDict
  /\ Cardinality(DOMAIN Registry(Last.mcls)) = 2

\* C15: when the family's policy raises while a declaration evaluates it, the
\* declaration raises that same error, not an extension error; no class is
\* produced and no registry changes.
C15_PolicyErrorPropagates ==
  ( /\ HasDeclared /\ HasName(Last.args)
    /\ PolicyAnswer(Last.mcls, Last.args).error # NoError )
  => /\ Last.out.error = PolicyAnswer(Last.mcls, Last.args).error
     /\ Last.out.error \notin {NoError, "ExtensionNameError",
                               "ExtensionNameAlreadyExistsError", "TypeError"}
     /\ Last.out.value = None
     /\ Last.out.log = PolicyAnswer(Last.mcls, Last.args).log
     /\ AllRegistriesUnchanged

\* The policy of a family raised during a declaration made after another
\* family had registered an extension.
C15_Witness ==
  /\ HasDeclared /\ HasName(Last.args)
  /\ PolicyAnswer(Last.mcls, Last.args).error = "StubError"
  /\ Last.out.error = "StubError"
  /\ \E f \in DOMAIN families : Registry(f) # EmptyDict

\* The i-th declaration was accepted with a free name and failed in the
\* construction of its class.
ConstructionFailed(i) ==
  history[i].out.error = "TypeError" /\ history[i].out.admitted

\* C16: a declaration that fails leaves every registry as it was; when the
\* policy accepts a candidate with a free name and the construction of its
\* class fails, the name is not a key of the registry afterwards, and a later
\* declaration with that name in that family is registered.
C16_FailedDeclarationChangesNothing ==
  /\ (HasDeclared /\ Last.out.error # NoError) => AllRegistriesUnchanged
  /\ ( /\ HasDeclared /\ HasName(Last.args)
       /\ PolicyAccepts(Last.mcls, Last.args)
       /\ ExtName(Last.args) \notin DOMAIN RegistryBefore(Last.mcls)
       /\ ~Constructs(Last.mcls, Last.args) )
     => /\ Last.out.error = "TypeError"
        /\ Last.out.value = None
        /\ ExtName(Last.args) \notin DOMAIN Registry(Last.mcls)
  /\ \A i, j \in DOMAIN history :
       ( /\ i < j /\ ConstructionFailed(i)
         /\ history[j].mcls = history[i].mcls
         /\ HasName(history[j].args)
         /\ ExtName(history[j].args) = ExtName(history[i].args)
         /\ PolicyAccepts(history[j].mcls, history[j].args)
         /\ Constructs(history[j].mcls, history[j].args)
         /\ \A k \in 1..(j - 1) :
              ~( /\ history[k].mcls = history[j].mcls /\ IsRegistered(k)
                 /\ ExtName(history[k].args) = ExtName(history[j].args)) )
       => /\ IsRegistered(j)
          /\ Registry(history[j].mcls)[ExtName(history[j].args)] = history[j].out.value

\* The construction of an accepted class named "X" failed, and the next
\* declaration of "X" in the same family was registered.
C16_Witness ==
  \E i \in DOMAIN history :
    /\ ConstructionFailed(i)
    /\ i + 1 \in DOMAIN history
    /\ history[i + 1].mcls = history[i].mcls
    /\ HasName(history[i + 1].args)
    /\ ExtName(history[i + 1].args) = ExtName(history[i].args)
    /\ IsRegistered(i + 1)

\* The policy object bound to a family: the extensionPolicy entry of its body.
BoundPolicy(f) == families[f].namespace["extensionPolicy"]

\* C17: no step changes the policy bound to a family that exists; every
\* declaration calls the policy object bound to its family, and no other;
\* and a declaration in which the policy was evaluated without accepting the
\* candidate, or whose candidate was not stored, changes no registry.
C17_PolicyBindingImmutable ==
  [][ /\ \A f \in DOMAIN families :
           /\ f \in DOMAIN families'
           /\ families'[f] = families[f]
           /\ BoundPolicy(f)' = BoundPolicy(f)
      /\ Len(history') > Len(history)
           => LET d == history'[Len(history')]
              IN  /\ \A k \in DOMAIN d.out.log :
                       d.out.log[k].depth = 0
                       => d.out.log[k].policy = BoundPolicy(d.mcls)
                  /\ HasName(d.args) => \E k \in DOMAIN d.out.log :
                                             d.out.log[k].depth = 0
                  /\ (d.out.error # NoError \/ ~d.out.admitted) => heap' = heap
      /\ queried' # queried => (families' = families /\ heap' = heap)
    ]_vars

\* A family with a policy of its own has registered one candidate and
\* rejected another, and was queried.
C17_Witness ==
  \E f \in DOMAIN families :
    /\ families[f].supplied
    /\ queried.cls = f /\ Len(queried.result) = 1
    /\ \E i, j \in DOMAIN history :
         /\ history[i].mcls = f /\ IsRegistered(i)
         /\ history[j].mcls = f /\ IsConstructedUnregistered(j)
         /\ history[i].out.log[1].policy = BoundPolicy(f)
         /\ history[j].out.log[1].policy = BoundPolicy(f)

\* C18: a call of getAvailableExtensions changes no extension class, no
\* registry and no declaration, and returns the extensions registered in the
\* family at the call; the object it returned keeps its contents through
\* every later step, declarations that register more extensions in the
\* family included.
C18_QueryReturnsSnapshot ==
  [][ /\ queried' # queried
           => /\ families' = families
              /\ availableExtensions' = availableExtensions
              /\ heap' = heap
              /\ history' = history /\ nDecl' = nDecl
              /\ Contents(queried') = getAvailableExtensions(queried'.cls)
      /\ queried' = queried
           => /\ Contents(queried)' = Contents(queried)
              /\ Listed(Contents(queried)')
                   \subseteq Listed(getAvailableExtensions(queried.cls)')
    ]_vars

\* The result of a call lists one extension, and the family has registered a
\* second one since.
C18_Witness ==
  /\ Len(Contents(queried)) = 1
  /\ Len(getAvailableExtensions(queried.cls)) = 2
  /\ HasDeclared /\ Last.mcls = queried.cls /\ IsRegistered(Len(history))

\* C20: an extension class derived from another one, and whose body has no
\* policy, is bound to a black list without entry, whatever the policy of its
\* base, and to a dict of its own that is empty until it registers; so a
\* declaration against it with a name that is free in its own registry, its
\* type construction returning, is registered, also when the base rejects or
\* holds the name, and the registry of the base stays as it was.
C20_DerivedFamilyGetsOwnDefault ==
  \A f \in DOMAIN families :
    (f # ExtensionClass /\ ~families[f].supplied)
    => /\ GetExtensionPolicy(f) = [kind |-> "BlackList", blackList |-> {}]
       /\ availableExtensions[f] # availableExtensions[families[f].base]
       /\ (\A i \in DOMAIN history : ~(history[i].mcls = f /\ IsRegistered(i)))
            => Registry(f) = EmptyDict
       /\ ( /\ HasDeclared /\ Last.mcls = f /\ HasName(Last.args)
            /\ ExtName(Last.args) \notin DOMAIN RegistryBefore(f)
            /\ Constructs(f, Last.args) )
          => /\ IsRegistered(Len(history))
             /\ Registry(f)[ExtName(Last.args)] = Last.out.value
             /\ Registry(families[f].base) = RegistryBefore(families[f].base)

\* An extension class without a policy, derived from one with a white list
\* {"Y"}, has registered "Y", which its base holds, and "X", which its base
\* rejects.
C20_Witness ==
  \E f \in DOMAIN families :
    /\ f # ExtensionClass /\ ~families[f].supplied
    /\ families[families[f].base].supplied
    /\ "Y" \in DOMAIN Registry(families[f].base)
    /\ "Y" \in DOMAIN Registry(f)
    /\ Registry(families[f].base)["Y"].id < Registry(f)["Y"].id
    /\ HasDeclared /\ Last.mcls = f /\ ExtName(Last.args) = "X"
    /\ PolicyRejects(families[f].base, Last.args)
    /\ IsRegistered(Len(history))

(* ------------------ properties of concurrent declarations -------------- *)

\* The thread's call of _new has returned or raised.
HasOutcome(t) == threads[t].pc \in {"release", "done"}
\* The thread's call returned its class on the branch that registers it.
ThreadRegistered(t) ==
  HasOutcome(t) /\ threads[t].out.error = NoError /\ threads[t].out.admitted
\* The threads with an outcome whose candidate has name n in family f and was
\* accepted by the policy of f.
AcceptedThreads(f, n) ==
  {t \in DOMAIN threads :
     /\ HasOutcome(t) /\ threads[t].mcls = f
     /\ HasName(threads[t].args) /\ ExtName(threads[t].args) = n
     /\ PolicyAccepts(f, threads[t].args)}

\* C19: with one mutex per extension class held for the whole declaration,
\* under every interleaving of the threads, at most one thread is inside _new
\* for an extension class; every class returned as registered is the entry
\* of its name in the registry of its family; and of the accepted
\* declarations of one name in one family that have ended, exactly one is
\* registered (none if no such class could be constructed) and each other
\* one raised the duplicate-name error naming the registered class, or the
\* TypeError of its own construction.
C19_SerializedDeclarations ==
  /\ \A t, u \in DOMAIN threads :
       (t # u /\ threads[t].pc \notin {"idle", "done"}
              /\ threads[u].pc \notin {"idle", "done"})
       => threads[t].mcls # threads[u].mcls
  /\ \A t \in DOMAIN threads :
       ThreadRegistered(t)
       => /\ ExtName(threads[t].args) \in DOMAIN Registry(threads[t].mcls)
          /\ Registry(threads[t].mcls)[ExtName(threads[t].args)] = threads[t].out.value
  /\ \A f \in DOMAIN families :
       \A n \in {"X"} :
         LET S == AcceptedThreads(f, n)
             R == {t \in S : ThreadRegistered(t)}
         IN  /\ Cardinality(R) <= 1
             /\ (\E t \in S : Constructs(f, threads[t].args)) => Cardinality(R) = 1
             /\ \A t \in S \ R :
                  \/ /\ threads[t].out.error = "ExtensionNameAlreadyExistsError"
                     /\ \E r \in R : threads[t].out.existing = threads[r].out.value
                  \/ /\ threads[t].out.error = "TypeError"
                     /\ ~Constructs(f, threads[t].args)

\* Two threads have declared the name "X" in the same family: one class is
\* registered, the other thread got the duplicate-name error.
C19_Witness ==
  \E t, u \in DOMAIN threads :
    /\ t # u
    /\ threads[t].pc = "done" /\ threads[u].pc = "done"
    /\ threads[t].mcls = threads[u].mcls
    /\ ThreadRegistered(t)
    /\ threads[u].out.error = "ExtensionNameAlreadyExistsError"
    /\ threads[u].out.existing = threads[t].out.value

====
